---------------------------- MODULE Spec2Model ----------------------------
(***************************************************************************)
(* traffic-sense-backend: the periodic fetch / merge / prune / aggregate   *)
(* cycle of src/server.js and the clock helpers of src/constants/time.js.  *)
(*                                                                         *)
(* An instant is a number of milliseconds, as in the code, counted from    *)
(* 2023-12-30T00:00:00Z (day EPOCH_DAY of the Unix epoch) instead of from   *)
(* 1970, so that it fits the 32-bit integers of the model checker.  The    *)
(* shift is a whole number of days and of quarter hours, and the code only *)
(* compares instants, subtracts them, and rounds them to quarter hours or  *)
(* to local days, all of which commute with such a shift.                  *)
(* A JavaScript                                                            *)
(* string (an intersection name) is the sequence of its UTF-16 code units. *)
(* A JavaScript object is the sequence of its <<key, value>> pairs in      *)
(* property enumeration order.  A local date string `YYYY-M-D` is the      *)
(* triple <<YYYY, M, D>> (the unpadded format with "-" separators is       *)
(* injective on dates, and such a key is never an array index).            *)
(***************************************************************************)
EXTENDS Integers, Sequences, FiniteSets, TLC

(***************************************************************************)
(* Program constants                                                       *)
(***************************************************************************)
ONE_HOUR_MS == 60 * 60 * 1000
TEN_MINUTES_MS == 10 * 60 * 1000
\* Day number (days since 1970-01-01) of the instant 0 of the model.
EPOCH_DAY == 19721
\* Date.parse("2023-12-30T00:00:00.000-08:00") = 1703923200000
\*   = EPOCH_DAY * ONE_DAY_MS + 8 h.
LAUNCH_DAY == 8 * 60 * 60 * 1000
UPDATE_INTERVAL_MS == TEN_MINUTES_MS
msPerQuarterHour == 15 * 60 * 1000
ONE_DAY_MS == 24 * 60 * 60 * 1000
FULL_DAY_SLOTS == 96

\* The process's local zone as a fixed offset from UTC (local = UTC + offset):
\* the zone of TIME_ZONE and of LAUNCH_DAY's "-08:00".
LOCAL_OFFSET_MS == 0 - 8 * ONE_HOUR_MS

(***************************************************************************)
(* Bounds of the model                                                     *)
(***************************************************************************)
\* steps of TimeStepMs the clock advances after process start
MaxTimeSteps == 2
\* events of the environment while the process runs: a document inserted or
\* rewritten by another writer, a query that fails
MaxEnvEvents == 1

TimeStepMs == 5 * 60 * 1000

(***************************************************************************)
(* Generic helpers                                                         *)
(***************************************************************************)
Max(a, b) == IF a >= b THEN a ELSE b

Range(s) == {s[i] : i \in 1..Len(s)}

\* lodash map
Map(s, F(_)) == [i \in 1..Len(s) |-> F(s[i])]

\* lodash filter is SelectSeq.

\* lodash uniqBy over precomputed keys: the first element of each key is kept,
\* in order of first occurrence.  (By halves: an element of the second half is
\* kept when it is the first of its key there and the first half has no such key.)
UniqJoin(left, right) ==
    LET seen == {left[i].k : i \in 1..Len(left)}
    IN left \o SelectSeq(right, LAMBDA e : e.k \notin seen)

RECURSIVE UniqRange(_, _, _, _)
UniqRange(s, keys, lo, hi) ==
    IF lo > hi THEN <<>>
    ELSE IF lo = hi THEN << [k |-> keys[lo], v |-> s[lo]] >>
    ELSE UniqJoin(UniqRange(s, keys, lo, (lo + hi) \div 2),
                  UniqRange(s, keys, (lo + hi) \div 2 + 1, hi))

UniqByKeys(s, keys) == Map(UniqRange(s, keys, 1, Len(s)), LAMBDA e : e.v)

\* lodash sortBy over precomputed integer keys: ascending, and stable (elements
\* of equal key keep their order).
SortByKeys(s, keys) ==
    Map(SortSeq([i \in 1..Len(s) |-> [k |-> keys[i], i |-> i, v |-> s[i]]],
                LAMBDA a, b : a.k < b.k \/ (a.k = b.k /\ a.i < b.i)),
        LAMBDA e : e.v)

(***************************************************************************)
(* JavaScript strings and objects                                          *)
(***************************************************************************)
\* a < b for strings: by UTF-16 code units, a proper prefix first.
RECURSIVE StrLessFrom(_, _, _)
StrLessFrom(a, b, i) ==
    IF i > Len(b) THEN FALSE
    ELSE IF i > Len(a) THEN TRUE
    ELSE IF a[i] # b[i] THEN a[i] < b[i]
    ELSE StrLessFrom(a, b, i + 1)

StrLess(a, b) == StrLessFrom(a, b, 1)

IsDigit(c) == c >= 48 /\ c <= 57

\* "4294967295" = 2^32 - 1
MaxArrayIndexNumeral == <<52, 50, 57, 52, 57, 54, 55, 50, 57, 53>>

\* a < b as numbers, for canonical decimal numerals.
NumeralLess(a, b) == Len(a) < Len(b) \/ (Len(a) = Len(b) /\ StrLess(a, b))

\* A property key that is an array index: a canonical decimal numeral
\* below 2^32 - 1.  Such keys are enumerated first, in ascending numeric order.
IsArrayIndex(a) ==
    /\ Len(a) >= 1
    /\ \A i \in 1..Len(a) : IsDigit(a[i])
    /\ (Len(a) > 1 => a[1] # 48)
    /\ NumeralLess(a, MaxArrayIndexNumeral)


\* The object built from <<key, value>> pairs with distinct keys (lodash
\* fromPairs, and the object groupBy fills): array-index keys first in
\* ascending numeric order, then the other keys in insertion order.
SortArrayIndexKeys(indexed) ==
    LET rank(p) == Cardinality({q \in Range(indexed) : NumeralLess(q[1], p[1])})
    IN SortByKeys(indexed, Map(indexed, rank))

ObjectFromPairs(pairs) ==
    SortArrayIndexKeys(SelectSeq(pairs, LAMBDA p : IsArrayIndex(p[1])))
        \o SelectSeq(pairs, LAMBDA p : ~IsArrayIndex(p[1]))

ObjectKeys(obj) == Map(obj, LAMBDA p : p[1])

\* lodash sortBy of pairs by their string key: ascending by code units, stable
\* (the keys of an object are distinct, so the order is the rank of the key).
SortPairsByName(pairs) ==
    LET rank(p) == Cardinality({q \in Range(pairs) : StrLess(q[1], p[1])})
    IN SortByKeys(pairs, Map(pairs, rank))

(***************************************************************************)
(* src/constants/time.js                                                   *)
(***************************************************************************)
\* Local midnight of the local date of (nowMs - n days).
getLocalMidnightNDaysAgo(n, nowMs) ==
    LET midnight == nowMs - n * ONE_DAY_MS
    IN midnight - ((midnight + LOCAL_OFFSET_MS) % ONE_DAY_MS)

getInitialTimeLastFetched(nowMs) ==
    LET ONE_WEEK_AGO == getLocalMidnightNDaysAgo(7, nowMs)
    IN Max(LAUNCH_DAY, ONE_WEEK_AGO) - ONE_HOUR_MS

(***************************************************************************)
(* Dates                                                                   *)
(***************************************************************************)
\* The proleptic Gregorian date <<year, month, day>> of day number z (days
\* since 1970-01-01), as Date's getFullYear/getMonth/getDate compute it.
CivilFromDays(z) ==
    LET zz == z + 719468
        era == zz \div 146097
        doe == zz - era * 146097
        yoe == (doe - doe \div 1460 + doe \div 36524 - doe \div 146096) \div 365
        doy == doe - (365 * yoe + yoe \div 4 - yoe \div 100)
        mp == (5 * doy + 2) \div 153
        d == doy - (153 * mp + 2) \div 5 + 1
        m == IF mp < 10 THEN mp + 3 ELSE mp - 9
        y == yoe + era * 400 + (IF m <= 2 THEN 1 ELSE 0)
    IN <<y, m, d>>

\* `${YYYY}-${mm}-${dd}` of the local date of the instant.
getYYYYMMDDDate(timestamp) ==
    CivilFromDays(EPOCH_DAY + (timestamp + LOCAL_OFFSET_MS) \div ONE_DAY_MS)

(***************************************************************************)
(* Aggregation (src/server.js)                                             *)
(***************************************************************************)
\* Math.round(t / q) * q; Math.round rounds a half towards +infinity.
\* (floor(t / q + 1/2) * q, with q even.)
\* (variant: a half rounds down)
roundToNearestQuarterHour_halfDown(date) ==
    ((date + msPerQuarterHour \div 2 - 1) \div msPerQuarterHour) * msPerQuarterHour

roundToNearestQuarterHour(date) ==
    ((date + msPerQuarterHour \div 2) \div msPerQuarterHour) * msPerQuarterHour

\* The members of s whose key is k, in the order of s.
GroupOf(s, keys, k) ==
    Map(SelectSeq([i \in 1..Len(s) |-> <<keys[i], s[i]>>], LAMBDA e : e[1] = k),
        LAMBDA e : e[2])

\* lodash groupBy: the groups in the enumeration order of the object that holds
\* them, each group in the order of the input.
GroupBy(s, keys) ==
    ObjectFromPairs(Map(UniqByKeys(keys, keys), LAMBDA k : <<k, GroupOf(s, keys, k)>>))

Thrown(what) == [ok |-> FALSE, error |-> what]
Returned(v) == [ok |-> TRUE, value |-> v]

\* lines 122-126 of getCountsByDay: the counts of each local date, as pairs.
compactCountsOf(sortedCounts) ==
    Map(GroupBy(sortedCounts, Map(sortedCounts, LAMBDA c : getYYYYMMDDDate(c.timestamp))),
        LAMBDA p : <<p[1], Map(p[2], LAMBDA c : c.vehicleCount)>>)

\* lines 128-135 of getCountsByDay: every date but the last has a full day.
checkedCounts(compactCounts) ==
    IF \E i \in 1..(Len(compactCounts) - 1) : Len(compactCounts[i][2]) # FULL_DAY_SLOTS
    THEN Thrown("error: Length check failed")
    ELSE Returned(ObjectFromPairs(compactCounts))

\* (variant: the length check of lines 128-133 left out)
getCountsByDay_noLengthCheck(sortedCounts) ==
    Returned(ObjectFromPairs(compactCountsOf(sortedCounts)))

getCountsByDay(sortedCounts) ==
    checkedCounts(compactCountsOf(sortedCounts))

\* sortBy(s, ({ timestamp }) => timestamp.getTime())
sortByTimestamp(s) == SortByKeys(s, Map(s, LAMBDA c : c.timestamp))

\* (variant: the uniqBy of line 108 left out)
uniqueSortedCounts_noUniq(dtos) == sortByTimestamp(dtos)

\* lines 108-109 of getOrganizedCounts
uniqueSortedCounts(dtos) ==
    sortByTimestamp(UniqByKeys(dtos, Map(dtos, LAMBDA c : c.timestamp)))

\* map(filteredData, (c) => pick(c, ["timestamp", "vehicleCount"]))
pickCounts(filteredData) ==
    Map(filteredData, LAMBDA c : [timestamp |-> c.timestamp, vehicleCount |-> c.vehicleCount])

\* (variant: the filter of line 106 left out)
sortedCountsOf_noCutoff(countsArray, nowMs) ==
    uniqueSortedCounts(pickCounts(countsArray))

\* lines 105-109 of getOrganizedCounts
sortedCountsOf(countsArray, nowMs) ==
    LET dataCutoffTime == Max(LAUNCH_DAY, getLocalMidnightNDaysAgo(7, nowMs))
    IN uniqueSortedCounts(pickCounts(
           SelectSeq(countsArray, LAMBDA c : c.timestamp >= dataCutoffTime)))

getOrganizedCounts(countsArray, nowMs) ==
    getCountsByDay(sortedCountsOf(countsArray, nowMs))


\* Intersection names: "9", "10", "A", "AB" have an entry in the camera data,
\* "ZZ" has none.
Name9 == <<57>>
Name10 == <<49, 48>>
NameA == <<65>>
NameAB == <<65, 66>>
NameZZ == <<90, 90>>

\* "constructor" and "toString": no entry in the camera data either, but
\* properties that every plain object inherits from Object.prototype.
NameConstructor == <<99, 111, 110, 115, 116, 114, 117, 99, 116, 111, 114>>
NameToString == <<116, 111, 83, 116, 114, 105, 110, 103>>
ObjectPrototypeNames == {NameConstructor, NameToString}

\* The value of a property that an object does not have.
Undefined == <<"undefined", <<>> >>

\* keyBy(camera_data.json, "name")
cameraData ==
    [n \in {Name9, Name10, NameA, NameAB} |-> [name |-> n, location |-> <<"location", n>>]]

\* cameraData[intersectionName]["location"].  keyBy returns a plain object, so
\* cameraData[intersectionName] is the entry of the name, or the inherited
\* property when the name is one of Object.prototype (a function, whose
\* "location" is undefined), or else undefined, and reading "location" of
\* undefined is a TypeError.
getLocation(intersectionName) ==
    IF intersectionName \in DOMAIN cameraData
    THEN Returned(cameraData[intersectionName].location)
    ELSE IF intersectionName \in ObjectPrototypeNames
         THEN Returned(Undefined)
         ELSE Thrown("error: TypeError")

\* lines 74-78
quantize(rollingWeek) ==
    Map(rollingWeek, LAMBDA r : [intersection |-> r.intersection,
                                 timestamp |-> roundToNearestQuarterHour(r.timestamp),
                                 vehicleCount |-> r.vehicleCount])

\* lines 79-81
sortedPairsOf(quantized) ==
    SortPairsByName(GroupBy(quantized, Map(quantized, LAMBDA q : q.intersection)))

\* lines 82-85: each intersection's location and data, or what computing them throws.
processedIntersectionsOf(sortedPairs, nowMs) ==
    Map(sortedPairs, LAMBDA p : [intersectionName |-> p[1],
                                 location |-> getLocation(p[1]),
                                 data |-> getOrganizedCounts(p[2], nowMs)])

\* The first throw of the map of line 82 ends processAndCacheData; within an
\* intersection getLocation runs before getOrganizedCounts.
firstThrown(throwing) ==
    IF ~throwing[1].location.ok THEN throwing[1].location ELSE throwing[1].data

\* line 86, when nothing threw
processedDataOf(processedIntersections) ==
    ObjectFromPairs(Map(processedIntersections,
                        LAMBDA e : <<e.intersectionName,
                                     [location |-> e.location.value, data |-> e.data.value]>>))

settled(processedIntersections, throwing) ==
    IF throwing # <<>>
    THEN firstThrown(throwing)
    ELSE Returned(processedDataOf(processedIntersections))

outcomeOf(processedIntersections) ==
    settled(processedIntersections,
            SelectSeq(processedIntersections, LAMBDA e : ~(e.location.ok /\ e.data.ok)))

\* (variant: an empty window is an error)
processData_emptyThrows(rollingWeek, nowMs) ==
    IF rollingWeek = <<>>
    THEN Thrown("error: TypeError")
    ELSE outcomeOf(processedIntersectionsOf(sortedPairsOf(quantize(rollingWeek)), nowMs))

\* The value processAndCacheData stores under PROCESSED_DATA, or what it throws.
processData(rollingWeek, nowMs) ==
    outcomeOf(processedIntersectionsOf(sortedPairsOf(quantize(rollingWeek)), nowMs))

\* (variant: the filter of line 95 left out)
filterRollingWeek_sortOnly(vehicleCounts, nowMs) ==
    sortByTimestamp(vehicleCounts)

\* filterRollingWeek
filterRollingWeek(vehicleCounts, nowMs) ==
    LET dataCutoffTime == getLocalMidnightNDaysAgo(7, nowMs) - ONE_HOUR_MS
    IN sortByTimestamp(SelectSeq(vehicleCounts, LAMBDA r : r.timestamp >= dataCutoffTime))

\* uniqBy(combined, ({ _id }) => _id.toHexString())
uniqById(combined) == UniqByKeys(combined, Map(combined, LAMBDA r : r.id))

\* (variant: the uniqBy of line 62 left out)
mergeRollingWeek_noUniq(cached, fetched, nowMs) ==
    filterRollingWeek(cached \o fetched, nowMs)

\* (variant: the fetched documents put before the cached ones)
mergeRollingWeek_fetchedFirst(cached, fetched, nowMs) ==
    filterRollingWeek(uniqById(fetched \o cached), nowMs)

\* lines 60-63 of fetchAndCacheRecords: the window stored after a fetch.
mergeRollingWeek(cached, fetched, nowMs) ==
    filterRollingWeek(uniqById(cached \o fetched), nowMs)

(***************************************************************************)
(* node-cache                                                              *)
(***************************************************************************)
VEHICLE_COUNTS == "vehicleCounts"
PROCESSED_DATA == "processedData"

CacheHas(c, key) == key \in DOMAIN c
CacheSet(c, key, val) == [k \in DOMAIN c \cup {key} |-> IF k = key THEN val ELSE c[k]]
\* cache.get(key) ?? dflt
CacheGetOr(c, key, dflt) == IF CacheHas(c, key) THEN c[key] ELSE dflt


\* The Rolling Window: cache.get(VEHICLE_COUNTS) ?? []
Window(c) == CacheGetOr(c, VEHICLE_COUNTS, <<>>)

\* (variant: the handler reads the other key)
Served_otherKey(c) == CacheGetOr(c, VEHICLE_COUNTS, <<>>)

\* What GET /api/data/ serves as data: cache.get(PROCESSED_DATA) ?? {}
Served(c) == CacheGetOr(c, PROCESSED_DATA, <<>>)

(***************************************************************************)
(* The record store: the documents of the collection in natural order.     *)
(* A document is [id, intersection, timestamp, vehicleCount]; id stands    *)
(* for _id.toHexString() and is unique in the collection.                  *)
(***************************************************************************)
Doc(i, name, ts, count) ==
    [id |-> i, intersection |-> name, timestamp |-> ts, vehicleCount |-> count]

\* One document per quarter hour: slots[i] is the slot of document firstId + i - 1.
SlotDocs(name, dayStart, slots, firstId) ==
    [i \in 1..Len(slots) |->
        Doc(firstId + i - 1, name, dayStart + slots[i] * msPerQuarterHour, 1 + (slots[i] % 7))]

AllSlots == [i \in 1..FULL_DAY_SLOTS |-> i - 1]
SlotsButOne == [i \in 1..(FULL_DAY_SLOTS - 1) |-> IF i <= 40 THEN i - 1 ELSE i]

\* A sensor that reported every quarter hour of the local day of nowMs, and three
\* more readings off the grid: 7 min 29 s, 7 min 30 s and 7 min 31 s into a slot.
StoreFullDay(nowMs) ==
    LET today == getLocalMidnightNDaysAgo(0, nowMs)
    IN SlotDocs(Name9, today, AllSlots, 1)
       \o << Doc(97, Name9, today + 10 * msPerQuarterHour + 449000, 50),
             Doc(98, Name9, today + 20 * msPerQuarterHour + 450000, 51),
             Doc(99, Name9, today + 30 * msPerQuarterHour + 451000, 52) >>

\* The same day with the reading of one slot missing.
StoreGapDay(nowMs) ==
    SlotDocs(Name9, getLocalMidnightNDaysAgo(0, nowMs), SlotsButOne, 1)

\* Readings around the two retention cutoffs, and one intersection of today.
StoreBoundary(nowMs) ==
    LET cutoff == Max(LAUNCH_DAY, getLocalMidnightNDaysAgo(7, nowMs))
        today == getLocalMidnightNDaysAgo(0, nowMs)
    IN << Doc(1, Name9, cutoff - 30 * 60000, 11),
          Doc(2, NameAB, cutoff - 5 * 60000, 12),
          Doc(3, NameAB, cutoff + 20 * 60000, 13),
          Doc(4, NameAB, cutoff - ONE_HOUR_MS, 14),
          Doc(5, NameAB, cutoff - ONE_HOUR_MS - 60000, 15),
          Doc(6, NameA, today + 10 * ONE_HOUR_MS + 450000, 16),
          Doc(7, NameA, today + 10 * ONE_HOUR_MS + 449999, 17),
          Doc(8, Name10, today + 11 * ONE_HOUR_MS, 18),
          Doc(9, NameConstructor, today + 11 * ONE_HOUR_MS, 19) >>

\* A reading of an intersection that the camera data lacks, after one of an
\* intersection it has.
StoreUnknown(nowMs) ==
    LET today == getLocalMidnightNDaysAgo(0, nowMs)
    IN << Doc(1, NameA, today + 10 * ONE_HOUR_MS, 21),
          Doc(2, NameZZ, today + 10 * ONE_HOUR_MS, 22) >>

StoreSeeds(nowMs) ==
    { <<>>, StoreFullDay(nowMs), StoreGapDay(nowMs), StoreBoundary(nowMs),
      StoreUnknown(nowMs) }

\* vehicleCounts.find({ timestamp: { $gt: after } }).toArray()
find(docs, after) == SelectSeq(docs, LAMBDA r : r.timestamp > after)

\* Process starts: five minutes before a local midnight, in the week after
\* LAUNCH_DAY (day 2) and later than that (day 9).
StartDays == {2, 9}
StartTimes == {LAUNCH_DAY + d * ONE_DAY_MS + 23 * ONE_HOUR_MS + 55 * 60000 : d \in StartDays}

\* A process start a quarter of an hour before a local midnight, so that the
\* first tick of the interval falls before that midnight; the run of SpecEve
\* covers one step of the clock more than that of Spec.
EveStart == LAUNCH_DAY + 9 * ONE_DAY_MS + 23 * ONE_HOUR_MS + 45 * 60000
MaxEveSteps == MaxTimeSteps + 1

\* Names of the documents another writer inserts while the process runs.
InsertNames == {Name9}

(***************************************************************************)
(* State                                                                   *)
(***************************************************************************)
VARIABLES
    now,              \* Date.now()
    startedAt,        \* the instant the process started
    kicked,           \* setTimeout(fetchProcessAndCacheNewData) has fired
    nextTick,         \* the instant setInterval fires next
    store,            \* the vehiclecounts collection
    envEvents,        \* events of the environment so far
    timeLastFetched,  \* let timeLastFetched
    cache,            \* const cache = new NodeCache()
    cycles,           \* the calls of fetchProcessAndCacheNewData in flight
    console,          \* the last line written by log or console.error
    jobs,             \* the continuations of awaits that are queued to run
                      \* before the event loop takes the next event
    response,         \* the data of the last response of GET /api/data/, as
                      \* <<data>>; <<>> before the first request
    owed,             \* history: the documents the failed queries would have
                      \* returned, until a later call takes them over
    racedOwed,        \* history: the documents inserted while a query that
                      \* failed was outstanding, until a later call takes
                      \* them over
    lastPublished,    \* history: <<v>> for the value v that the last
                      \* processAndCacheData to return has built; <<>> before
    overlapPublished  \* history: whether the call of that processAndCacheData
                      \* was in flight when another call merged documents

vars == <<now, startedAt, kicked, nextTick, store, envEvents,
          timeLastFetched, cache, cycles, console, jobs, response, owed,
          racedOwed, lastPublished, overlapPublished>>

\* One slot per call that the timers can start within the time the model covers:
\* the code puts no limit on the calls in flight.
Slots == 1..(1 + (MaxEveSteps * TimeStepMs) \div UPDATE_INTERVAL_MS)

\* A call: where it is, its query's lower bound, the query's result, the window
\* it stored; and (history) the documents owed to it by the failed queries that
\* ended before it started, and the documents inserted while its query, or a
\* failed query it takes over from, was outstanding, and the documents returned
\* by the queries of the calls that merged while it was in flight.
Idle ==
    [pc |-> "idle", query |-> 0, fetched |-> <<>>, rollingWeek |-> <<>>,
     owes |-> {}, raced |-> {}, overlapped |-> {}]

InFlight == {c \in Slots : cycles[c].pc # "idle"}

Init ==
    /\ now \in StartTimes
    /\ startedAt = now
    /\ kicked = FALSE
    /\ nextTick = now + UPDATE_INTERVAL_MS
    /\ store \in StoreSeeds(now)
    /\ envEvents = 0
    /\ timeLastFetched = getInitialTimeLastFetched(now)
    /\ cache = <<>>
    /\ cycles = [c \in Slots |-> Idle]
    /\ console = "Updating every 10 minutes"
    /\ jobs = <<>>
    /\ response = <<>>
    /\ owed = {}
    /\ racedOwed = {}
    /\ lastPublished = <<>>
    /\ overlapPublished = FALSE

(***************************************************************************)
(* fetchProcessAndCacheNewData, one action per stretch of code that runs   *)
(* without yielding to the event loop                                      *)
(***************************************************************************)
\* (variant: the query is built after the watermark has moved)
StartCycle_queryAfterAdvance ==
    \E c \in Slots :
        /\ cycles[c].pc = "idle"
        /\ \A d \in Slots : d < c => cycles[d].pc # "idle"
        /\ cycles' = [cycles EXCEPT ![c] = [Idle EXCEPT !.pc = "querying",
                                                        !.query = now,
                                                        !.owes = owed,
                                                        !.raced = racedOwed]]
        /\ timeLastFetched' = now
        /\ owed' = {}
        /\ racedOwed' = {}

\* A call starts and runs up to the await of the query: lines 56-58.
StartCycle ==
    \E c \in Slots :
        /\ cycles[c].pc = "idle"
        /\ \A d \in Slots : d < c => cycles[d].pc # "idle"
        /\ cycles' = [cycles EXCEPT ![c] = [Idle EXCEPT !.pc = "querying",
                                                        !.query = timeLastFetched,
                                                        !.owes = owed,
                                                        !.raced = racedOwed]]
        /\ timeLastFetched' = now
        /\ owed' = {}
        /\ racedOwed' = {}

\* setTimeout(fetchProcessAndCacheNewData)
Kick ==
    /\ jobs = <<>>
    /\ ~kicked
    /\ kicked' = TRUE
    /\ StartCycle
    /\ UNCHANGED <<now, startedAt, nextTick, store, envEvents, cache, console, jobs,
                   response, lastPublished, overlapPublished>>

\* setInterval(fetchProcessAndCacheNewData, UPDATE_INTERVAL_MS)
Tick ==
    /\ jobs = <<>>
    /\ kicked
    /\ now >= nextTick
    /\ nextTick' = nextTick + UPDATE_INTERVAL_MS
    /\ StartCycle
    /\ UNCHANGED <<now, startedAt, kicked, store, envEvents, cache, console, jobs,
                   response, lastPublished, overlapPublished>>

\* The store evaluates the query of a call.
QueryExec(c) ==
    /\ jobs = <<>>
    /\ cycles[c].pc = "querying"
    /\ cycles' = [cycles EXCEPT ![c].pc = "resultReady",
                                ![c].fetched = find(store, cycles[c].query)]
    /\ UNCHANGED <<now, startedAt, kicked, nextTick, store, envEvents,
                   timeLastFetched, cache, console, jobs, owed, racedOwed,
                   response, lastPublished, overlapPublished>>

\* The query rejects: the await of line 58 throws, line 47 rethrows, the catch
\* of line 49 logs and the call ends.
QueryFail(c) ==
    /\ jobs = <<>>
    /\ cycles[c].pc = "querying"
    /\ cycles' = [cycles EXCEPT ![c] = Idle]
    /\ console' = "error: query"
    /\ owed' = owed \cup cycles[c].owes \cup Range(find(store, cycles[c].query))
    /\ racedOwed' = racedOwed \cup cycles[c].raced
    /\ UNCHANGED <<now, startedAt, kicked, nextTick, store, envEvents,
                   timeLastFetched, cache, jobs,
                   response, lastPublished, overlapPublished>>

\* Results arrive: one event of the event loop resolves the promises of one or
\* more queries, in some order, and queues the continuation of each await of
\* line 58.
Batches(S) ==
    {b \in UNION {[1..n -> S] : n \in 1..Cardinality(S)} :
        \A i, j \in DOMAIN b : i # j => b[i] # b[j]}

Job(what, c) == [run |-> what, call |-> c]

Deliver ==
    /\ jobs = <<>>
    /\ \E batch \in Batches({c \in Slots : cycles[c].pc = "resultReady"}) :
          jobs' = [i \in DOMAIN batch |-> Job("merge", batch[i])]
    /\ UNCHANGED <<now, startedAt, kicked, nextTick, store, envEvents,
                   timeLastFetched, cache, cycles, console, owed, racedOwed,
                   response, lastPublished, overlapPublished>>

\* (variant: the continuation of the await of line 47 runs ahead of the
\* continuations of that await which are queued already)
MergeAndCache_processAhead(c) ==
    /\ jobs # <<>>
    /\ Head(jobs) = Job("merge", c)
    /\ jobs' = SelectSeq(Tail(jobs), LAMBDA j : j.run = "merge")
                   \o <<Job("process", c)>>
                   \o SelectSeq(Tail(jobs), LAMBDA j : j.run = "process")
    /\ cycles[c].pc = "resultReady"
    /\ \E rollingWeek \in {mergeRollingWeek(CacheGetOr(cache, VEHICLE_COUNTS, <<>>),
                                             cycles[c].fetched, now)} :
          /\ cache' = CacheSet(cache, VEHICLE_COUNTS, rollingWeek)
          /\ cycles' = [k \in Slots |->
                           IF k = c
                           THEN [cycles[c] EXCEPT !.pc = "fetched",
                                                  !.rollingWeek = rollingWeek]
                           ELSE IF cycles[k].pc \in {"querying", "resultReady"}
                                THEN [cycles[k] EXCEPT
                                         !.overlapped = @ \cup Range(cycles[c].fetched)]
                                ELSE cycles[k]]
    /\ console' = "Fetched"
    /\ UNCHANGED <<now, startedAt, kicked, nextTick, store, envEvents,
                   timeLastFetched, owed, racedOwed,
                   response, lastPublished, overlapPublished>>

\* The continuation of the await of line 58: lines 60-69.  Its return resolves
\* the promise awaited at line 47, which queues the continuation of that await.
MergeAndCache(c) ==
    /\ jobs # <<>>
    /\ Head(jobs) = Job("merge", c)
    /\ jobs' = Append(Tail(jobs), Job("process", c))
    /\ cycles[c].pc = "resultReady"
    /\ \E rollingWeek \in {mergeRollingWeek(CacheGetOr(cache, VEHICLE_COUNTS, <<>>),
                                             cycles[c].fetched, now)} :
          /\ cache' = CacheSet(cache, VEHICLE_COUNTS, rollingWeek)
          /\ cycles' = [k \in Slots |->
                           IF k = c
                           THEN [cycles[c] EXCEPT !.pc = "fetched",
                                                  !.rollingWeek = rollingWeek]
                           ELSE IF cycles[k].pc \in {"querying", "resultReady"}
                                THEN [cycles[k] EXCEPT
                                         !.overlapped = @ \cup Range(cycles[c].fetched)]
                                ELSE cycles[k]]
    /\ console' = "Fetched"
    /\ UNCHANGED <<now, startedAt, kicked, nextTick, store, envEvents,
                   timeLastFetched, owed, racedOwed,
                   response, lastPublished, overlapPublished>>

\* processAndCacheData(rollingWeek) returns: lines 72-90, then the call ends.
ProcessAndCache(c) ==
    /\ jobs # <<>>
    /\ Head(jobs) = Job("process", c)
    /\ jobs' = Tail(jobs)
    /\ cycles[c].pc = "fetched"
    /\ \E processed \in {processData(cycles[c].rollingWeek, now)} :
          /\ processed.ok
          /\ cache' = CacheSet(cache, PROCESSED_DATA, processed.value)
          /\ lastPublished' = <<processed.value>>
    /\ overlapPublished' = (cycles[c].overlapped # {})
    /\ cycles' = [cycles EXCEPT ![c] = Idle]
    /\ console' = "Processed"
    /\ UNCHANGED <<now, startedAt, kicked, nextTick, store, envEvents,
                   timeLastFetched, owed, racedOwed, response>>

\* (variant: the catch empties the published data)
ProcessThrows_clearsPublished(c) ==
    /\ jobs # <<>>
    /\ Head(jobs) = Job("process", c)
    /\ jobs' = Tail(jobs)
    /\ cycles[c].pc = "fetched"
    /\ \E processed \in {processData(cycles[c].rollingWeek, now)} :
          /\ ~processed.ok
          /\ console' = processed.error
    /\ cache' = CacheSet(cache, PROCESSED_DATA, <<>>)
    /\ cycles' = [cycles EXCEPT ![c] = Idle]
    /\ UNCHANGED <<now, startedAt, kicked, nextTick, store, envEvents,
                   timeLastFetched, owed, racedOwed,
                   response, lastPublished, overlapPublished>>

\* (variant: the catch empties the stored window)
ProcessThrows_clearsWindow(c) ==
    /\ jobs # <<>>
    /\ Head(jobs) = Job("process", c)
    /\ jobs' = Tail(jobs)
    /\ cycles[c].pc = "fetched"
    /\ \E processed \in {processData(cycles[c].rollingWeek, now)} :
          /\ ~processed.ok
          /\ console' = processed.error
    /\ cache' = CacheSet(cache, VEHICLE_COUNTS, <<>>)
    /\ cycles' = [cycles EXCEPT ![c] = Idle]
    /\ UNCHANGED <<now, startedAt, kicked, nextTick, store, envEvents,
                   timeLastFetched, owed, racedOwed,
                   response, lastPublished, overlapPublished>>

\* processAndCacheData(rollingWeek) throws before line 87: the catch of line 49
\* logs and the call ends.
ProcessThrows(c) ==
    /\ jobs # <<>>
    /\ Head(jobs) = Job("process", c)
    /\ jobs' = Tail(jobs)
    /\ cycles[c].pc = "fetched"
    /\ \E processed \in {processData(cycles[c].rollingWeek, now)} :
          /\ ~processed.ok
          /\ console' = processed.error
    /\ cycles' = [cycles EXCEPT ![c] = Idle]
    /\ UNCHANGED <<now, startedAt, kicked, nextTick, store, envEvents,
                   timeLastFetched, cache, owed, racedOwed,
                   response, lastPublished, overlapPublished>>

(***************************************************************************)
(* The environment                                                         *)
(***************************************************************************)
\* The clock advances; a timer that is due fires first.
PassTime ==
    /\ jobs = <<>>
    /\ kicked
    /\ now < nextTick
    /\ now + TimeStepMs <= startedAt + MaxTimeSteps * TimeStepMs
    /\ now' = now + TimeStepMs
    /\ UNCHANGED <<startedAt, kicked, nextTick, store, envEvents,
                   timeLastFetched, cache, cycles, console, jobs, owed, racedOwed,
                   response, lastPublished, overlapPublished>>

\* Another writer inserts a reading taken now.
StoreInsert(name) ==
    /\ jobs = <<>>
    /\ envEvents < MaxEnvEvents
    /\ envEvents' = envEvents + 1
    /\ store' = Append(store, Doc(Len(store) + 1, name, now, 9))
    /\ cycles' = [c \in Slots |->
                     IF cycles[c].pc = "querying"
                     THEN [cycles[c] EXCEPT !.raced = @ \cup {Doc(Len(store) + 1, name, now, 9)}]
                     ELSE cycles[c]]
    /\ UNCHANGED <<now, startedAt, kicked, nextTick, timeLastFetched, cache,
                   console, jobs, owed, racedOwed,
                   response, lastPublished, overlapPublished>>

\* Another writer rewrites the first document as a reading taken now.
StoreUpdate ==
    /\ jobs = <<>>
    /\ envEvents < MaxEnvEvents
    /\ store # <<>>
    /\ envEvents' = envEvents + 1
    /\ store' = [store EXCEPT ![1].timestamp = now, ![1].vehicleCount = 8]
    /\ UNCHANGED <<now, startedAt, kicked, nextTick, timeLastFetched, cache, cycles,
                   console, jobs, owed, racedOwed,
                   response, lastPublished, overlapPublished>>

\* GET /api/data/: lines 33-35.
GetData ==
    /\ jobs = <<>>
    /\ envEvents < MaxEnvEvents
    /\ envEvents' = envEvents + 1
    /\ response' = <<Served(cache)>>
    /\ UNCHANGED <<now, startedAt, kicked, nextTick, store, timeLastFetched, cache,
                   cycles, console, jobs, owed, racedOwed, lastPublished, overlapPublished>>

Next ==
    \/ Kick
    \/ Tick
    \/ \E c \in Slots : QueryExec(c)
    \/ \E c \in Slots : QueryFail(c)
    \/ Deliver
    \/ \E c \in Slots : MergeAndCache(c)
    \/ \E c \in Slots : ProcessAndCache(c)
    \/ \E c \in Slots : ProcessThrows(c)
    \/ PassTime
    \/ \E name \in InsertNames : StoreInsert(name)
    \/ StoreUpdate
    \/ GetData

Spec == Init /\ [][Next]_vars

(***************************************************************************)
(* The evening run: the startup call and the first tick both start before  *)
(* the local midnight that the run crosses                                 *)
(***************************************************************************)
InitEve ==
    /\ now = EveStart
    /\ startedAt = now
    /\ kicked = FALSE
    /\ nextTick = now + UPDATE_INTERVAL_MS
    /\ store \in {StoreBoundary(now), StoreUnknown(now)}
    /\ envEvents = 0
    /\ timeLastFetched = getInitialTimeLastFetched(now)
    /\ cache = <<>>
    /\ cycles = [c \in Slots |-> Idle]
    /\ console = "Updating every 10 minutes"
    /\ jobs = <<>>
    /\ response = <<>>
    /\ owed = {}
    /\ racedOwed = {}
    /\ lastPublished = <<>>
    /\ overlapPublished = FALSE

PassTimeEve ==
    /\ jobs = <<>>
    /\ kicked
    /\ now < nextTick
    /\ now + TimeStepMs <= startedAt + MaxEveSteps * TimeStepMs
    /\ now' = now + TimeStepMs
    /\ UNCHANGED <<startedAt, kicked, nextTick, store, envEvents,
                   timeLastFetched, cache, cycles, console, jobs, owed, racedOwed,
                   response, lastPublished, overlapPublished>>

NextEve ==
    \/ Kick
    \/ Tick
    \/ \E c \in Slots : QueryExec(c)
    \/ \E c \in Slots : QueryFail(c)
    \/ Deliver
    \/ \E c \in Slots : MergeAndCache(c)
    \/ \E c \in Slots : ProcessAndCache(c)
    \/ \E c \in Slots : ProcessThrows(c)
    \/ PassTimeEve
    \/ \E name \in InsertNames : StoreInsert(name)
    \/ StoreUpdate
    \/ GetData

SpecEve == InitEve /\ [][NextEve]_vars


(***************************************************************************)
(* Properties                                                              *)
(***************************************************************************)
\* The value under the processed-data key: <<>> when there is none, <<v>> otherwise.
Published(c) == IF CacheHas(c, PROCESSED_DATA) THEN <<c[PROCESSED_DATA]>> ELSE <<>>

Ids(docs) == {docs[i].id : i \in 1..Len(docs)}

\* The call in slot c takes the step from pc `from` in this step.
Leaves(c, from) == cycles[c].pc = from /\ cycles'[c].pc # from

PruneCutoff(nowMs) == getLocalMidnightNDaysAgo(7, nowMs) - ONE_HOUR_MS
ServeCutoff(nowMs) == Max(LAUNCH_DAY, getLocalMidnightNDaysAgo(7, nowMs))

\* a is an earlier date than b, for dates <<year, month, day>>.
DateLess(a, b) ==
    \/ a[1] < b[1]
    \/ a[1] = b[1] /\ a[2] < b[2]
    \/ a[1] = b[1] /\ a[2] = b[2] /\ a[3] < b[3]

\* C1: at most one fetch+aggregate cycle is in flight at any time.
\* (The code starts a call on every timer, whatever is in flight.)
C1_OneCycleInFlight == Cardinality(InFlight) <= 1

\* C2: a cycle that fails (its query rejects, or its aggregation throws) ends
\* with the value under the processed-data key as it was, and is idle again;
\* the value changes only in the step of a cycle whose aggregation returns.
C2_FailedCycleKeepsSnapshot ==
    [][/\ \A c \in Slots :
             (\/ cycles[c].pc = "querying" /\ cycles'[c].pc = "idle"
              \/ /\ Leaves(c, "fetched")
                 /\ ~processData(cycles[c].rollingWeek, now).ok)
             => cycles'[c].pc = "idle" /\ Published(cache') = Published(cache)
       /\ Published(cache') # Published(cache)
             => \E c \in Slots : /\ Leaves(c, "fetched")
                                 /\ processData(cycles[c].rollingWeek, now).ok]_vars

C2_Witness ==
    /\ console \in {"error: query", "error: TypeError", "error: Length check failed"}
    /\ Served(cache) # <<>>

\* C3: the first fetch that succeeds after a failed query stores in the Rolling
\* Window every document, within the retention bound, that the failed query
\* would have returned.
C3_FailedFetchRecovered ==
    [][\A c \in Slots :
          Leaves(c, "resultReady")
          => \A r \in cycles[c].owes :
                r.timestamp >= PruneCutoff(now) => r.id \in Ids(Window(cache'))]_vars

\* The local day number of an instant.
LocalDay(t) == (t + LOCAL_OFFSET_MS) \div ONE_DAY_MS

\* The grid instants, at or after the serve cutoff, that a document of the
\* intersection in the window rounds to.
GridInstants(window, name, nowMs) ==
    {t \in {roundToNearestQuarterHour(window[i].timestamp) :
              i \in {j \in 1..Len(window) : window[j].intersection = name}} :
        t >= ServeCutoff(nowMs)}

\* Some intersection of the window has a day, not its last, whose number of
\* grid instants is not 96.
IncompleteEarlierDay(window, nowMs) ==
    \E name \in {window[i].intersection : i \in 1..Len(window)} :
        LET instants == GridInstants(window, name, nowMs)
        IN \E t \in instants :
              /\ \E u \in instants : LocalDay(u) > LocalDay(t)
              /\ Cardinality({u \in instants : LocalDay(u) = LocalDay(t)}) # 96

\* Every day of every intersection of the snapshot, except the latest day of
\* the intersection, has 96 counts.
SnapshotComplete(snapshot) ==
    \A i \in 1..Len(snapshot) :
        LET data == snapshot[i][2].data
        IN \A d \in 1..Len(data) :
              (\E e \in 1..Len(data) : DateLess(data[d][1], data[e][1]))
              => Len(data[d][2]) = 96

\* C4: every published Snapshot is complete, and a cycle whose window has an
\* incomplete earlier day publishes nothing.
C4_Completeness ==
    [][/\ SnapshotComplete(Served(cache'))
       /\ \A c \in Slots :
             Leaves(c, "fetched") /\ IncompleteEarlierDay(cycles[c].rollingWeek, now)
             => Published(cache') = Published(cache)]_vars

C4_Witness ==
    \E i \in 1..Len(Served(cache)) : Len(Served(cache)[i][2].data) >= 2

\* C5: the window a cycle stores holds no document older than local midnight
\* 7 days before the instant of the prune, minus one hour.
C5_WindowBound ==
    [][\A c \in Slots :
          Leaves(c, "resultReady")
          => \A i \in 1..Len(Window(cache')) :
                Window(cache')[i].timestamp
                    >= getLocalMidnightNDaysAgo(7, now) - ONE_HOUR_MS]_vars

\* A cycle has stored a window from which the prune dropped a fetched document.
C5_Witness ==
    \E c \in Slots :
        /\ cycles[c].pc = "fetched"
        /\ cycles[c].rollingWeek # <<>>
        /\ Ids(cycles[c].fetched) \ Ids(cycles[c].rollingWeek) # {}

\* C6: no two documents of the Rolling Window share an id.
C6_UniqueIds == Cardinality(Ids(Window(cache))) = Len(Window(cache))

\* Two calls that overlap have merged results that share a document.
C6_Witness ==
    \E c, d \in Slots :
        /\ c # d
        /\ cycles[c].pc = "fetched"
        /\ cycles[d].pc = "fetched"
        /\ Ids(cycles[c].fetched) \cap Ids(cycles[d].fetched) \cap Ids(Window(cache)) # {}

\* C7: merging a query's result into the Rolling Window twice (at the same
\* instant) gives the window that merging it once gives.
C7_IdempotentMerge ==
    \A c \in Slots :
        cycles[c].pc = "resultReady"
        => LET once == mergeRollingWeek(Window(cache), cycles[c].fetched, now)
           IN mergeRollingWeek(once, cycles[c].fetched, now) = once

\* C8: in the published Snapshot the intersections are in lexicographic order
\* of name and the days of each intersection in chronological order.
C8_SnapshotOrdered ==
    LET snapshot == Served(cache)
    IN /\ \A i \in 1..(Len(snapshot) - 1) : StrLess(snapshot[i][1], snapshot[i + 1][1])
       /\ \A i \in 1..Len(snapshot) :
             LET data == snapshot[i][2].data
             IN \A d \in 1..(Len(data) - 1) : DateLess(data[d][1], data[d + 1][1])

\* C9: the quantized timestamp of every document the aggregation reads is the
\* multiple of 900000 nearest to its timestamp, an exact half rounded up; 7 min
\* 29 s into a slot rounds to the slot's start, 7 min 31 s to the next slot's.
C9_QuarterHourRounding ==
    \A c \in Slots :
        cycles[c].pc = "fetched"
        => \A i \in 1..Len(cycles[c].rollingWeek) :
              LET m == cycles[c].rollingWeek[i].timestamp
                  q == roundToNearestQuarterHour(m)
              IN /\ q % 900000 = 0
                 /\ q - m <= 450000
                 /\ m - q < 450000
                 /\ (m % 900000 = 449000 => q = m - 449000)
                 /\ (m % 900000 = 451000 => q = m + 449000)

\* A snapshot is published from a window with a document exactly half way
\* between two grid instants.
C9_Witness ==
    /\ console = "Processed"
    /\ InFlight = {}
    /\ \E i \in 1..Len(Window(cache)) : Window(cache)[i].timestamp % 900000 = 450000

\* The counts of the intersection in the snapshot (none when it is absent).
DataOf(snapshot, name) ==
    IF \E i \in 1..Len(snapshot) : snapshot[i][1] = name
    THEN snapshot[CHOOSE i \in 1..Len(snapshot) : snapshot[i][1] = name][2].data
    ELSE <<>>

\* The snapshot just published by the call in slot c has, for every intersection,
\* the counts that the aggregation of `kept` gives.
PublishesCountsOf(c, kept) ==
    LET alone == processData(kept, now)
    IN /\ alone.ok
       /\ \A i \in 1..Len(Served(cache')) :
             Served(cache')[i][2].data = DataOf(alone.value, Served(cache')[i][1])

\* C10 as stated: the documents of the window older than max(launchDay, local
\* midnight 7 days ago) contribute no count to the published Snapshot: it has
\* the counts it would have without them.
C10_OlderThanCutoffNotServed ==
    [][\A c \in Slots :
          Leaves(c, "fetched") /\ console' = "Processed"
          => PublishesCountsOf(c,
                SelectSeq(cycles[c].rollingWeek,
                          LAMBDA r : r.timestamp >= ServeCutoff(now)))]_vars

\* C10 amended: the documents of the window whose quantized timestamp is older
\* than the cutoff contribute no count.
C10_QuantizedOlderThanCutoffNotServed ==
    [][\A c \in Slots :
          Leaves(c, "fetched") /\ console' = "Processed"
          => PublishesCountsOf(c,
                SelectSeq(cycles[c].rollingWeek,
                          LAMBDA r : roundToNearestQuarterHour(r.timestamp)
                                        >= ServeCutoff(now)))]_vars

\* A snapshot is published from a window that holds a document whose quantized
\* timestamp is older than the cutoff.
C10_Witness ==
    /\ console = "Processed"
    /\ InFlight = {}
    /\ Served(cache) # <<>>
    /\ \E i \in 1..Len(Window(cache)) :
          roundToNearestQuarterHour(Window(cache)[i].timestamp) < ServeCutoff(now)

\* C11: a cycle whose Rolling Window is empty aggregates without error and
\* publishes the empty Snapshot (no intersections).
C11_EmptyWindowPublishesEmpty ==
    [][\A c \in Slots :
          Leaves(c, "fetched") /\ cycles[c].rollingWeek = <<>>
          => /\ console' = "Processed"
             /\ Published(cache') = << <<>> >>]_vars

\* The empty Snapshot has been published.
C11_Witness ==
    /\ console = "Processed"
    /\ Window(cache) = <<>>
    /\ Published(cache) = << <<>> >>

\* C12: a request of GET /api/data/, wherever it falls between the steps of
\* the fetch cycles, is answered with the empty object when no aggregation has
\* returned yet and else with the value the last aggregation to return has
\* built; it leaves the watermark and the cache as they are.
C12_ReadServesLastPublished ==
    [][GetData
       => /\ response' = (IF lastPublished = <<>> THEN << <<>> >> ELSE lastPublished)
          /\ UNCHANGED <<timeLastFetched, cache>>]_vars

\* A request was answered with a Snapshot that has an intersection while a
\* cycle was in flight.
C12_Witness ==
    /\ response # <<>>
    /\ response[1] # <<>>
    /\ InFlight # {}

\* C13: a document inserted after a call has advanced the watermark and before
\* its query is evaluated is in the Rolling Window, while within the retention
\* bound, once that call has merged or, when its query failed, once the next
\* call whose query succeeds has merged.
C13_RacedRecordNotLost ==
    [][\A c \in Slots :
          Leaves(c, "resultReady")
          => \A r \in cycles[c].raced :
                r.timestamp >= PruneCutoff(now) => r.id \in Ids(Window(cache'))]_vars

\* C14: the watermark never decreases; a call that starts sets it to the
\* instant of its start, and the lower bound of the call's query is the value
\* the watermark had just before.
C14_WatermarkMonotone ==
    [][/\ timeLastFetched' >= timeLastFetched
       /\ \A c \in Slots :
             cycles[c].pc = "idle" /\ cycles'[c].pc = "querying"
             => /\ timeLastFetched' = now
                /\ cycles'[c].query = timeLastFetched]_vars

\* A call is in flight that started after an earlier call had moved the
\* watermark.
C14_Witness ==
    \E c \in Slots :
        /\ cycles[c].pc = "querying"
        /\ cycles[c].query > getInitialTimeLastFetched(startedAt)
        /\ timeLastFetched > cycles[c].query

\* C15: a document that the window stored by a merge shares, by id, with the
\* window the merge read is the copy that window held, whatever the fields of
\* the fetched copy.
C15_WindowCopyWins ==
    [][\A c \in Slots :
          Leaves(c, "resultReady")
          => \A i \in DOMAIN Window(cache') : \A j \in DOMAIN Window(cache) :
                Window(cache')[i].id = Window(cache)[j].id
                => Window(cache')[i] = Window(cache)[j]]_vars

\* A merge has kept the window's copy of a document of which the query had
\* returned a rewritten copy.
C15_Witness ==
    \E c \in Slots :
        /\ cycles[c].pc = "fetched"
        /\ \E i \in DOMAIN cycles[c].fetched : \E j \in DOMAIN Window(cache) :
              /\ cycles[c].fetched[i].id = Window(cache)[j].id
              /\ cycles[c].fetched[i] # Window(cache)[j]

\* The count of the first document of the window, of the intersection, that
\* rounds to the grid instant t; rounded[j] is the rounded timestamp of the
\* j-th document.
FirstCountAt(window, rounded, name, t) ==
    window[CHOOSE j \in 1..Len(window) :
              /\ window[j].intersection = name
              /\ rounded[j] = t
              /\ \A k \in 1..(j - 1) :
                    ~ (window[k].intersection = name /\ rounded[k] = t)].vehicleCount

\* The bucket <<date, counts>> is that of the local day: it has one count for
\* each of the instants of that day, in ascending order of instant, the count
\* of the first document that rounds to it.
BucketIsOnePerInstant(bucket, day, window, rounded, name) ==
    /\ \A t \in day : bucket[1] = getYYYYMMDDDate(t)
    /\ Len(bucket[2]) = Cardinality(day)
    /\ \A t \in day :
          bucket[2][Cardinality({u \in day : u < t}) + 1]
              = FirstCountAt(window, rounded, name, t)

\* The data of the intersection has one bucket for each local day that has a
\* grid instant, in ascending order of day.
DataIsOnePerInstant(data, instants, window, rounded, name) ==
    LET days == {LocalDay(t) : t \in instants}
    IN /\ Len(data) = Cardinality(days)
       /\ \A D \in days :
             BucketIsOnePerInstant(data[Cardinality({E \in days : E < D}) + 1],
                                   {t \in instants : LocalDay(t) = D},
                                   window, rounded, name)

\* C16: in a published Snapshot every grid instant at or after the cutoff to
\* which a document of the intersection rounds contributes one count, that of
\* the first such document in window order, and no other instant contributes:
\* the length of a day's bucket is the number of grid instants of that day that
\* have a document.
C16_OneCountPerGridInstant ==
    [][\A c \in Slots :
          Leaves(c, "fetched") /\ console' = "Processed"
          => LET window == cycles[c].rollingWeek
                 rounded == [j \in 1..Len(window) |->
                                roundToNearestQuarterHour(window[j].timestamp)]
             IN \A i \in 1..Len(Served(cache')) :
                   DataIsOnePerInstant(
                       Served(cache')[i][2].data,
                       {t \in {rounded[j] : j \in {k \in 1..Len(window) :
                                     window[k].intersection = Served(cache')[i][1]}} :
                           t >= ServeCutoff(now)},
                       window, rounded, Served(cache')[i][1])]_vars

\* A Snapshot is published from a window in which two documents of one
\* intersection, with different counts, round to one grid instant at or after
\* the cutoff.
C16_Witness ==
    /\ console = "Processed"
    /\ InFlight = {}
    /\ Served(cache) # <<>>
    /\ \E i, j \in 1..Len(Window(cache)) :
          /\ i < j
          /\ Window(cache)[i].intersection = Window(cache)[j].intersection
          /\ Window(cache)[i].vehicleCount # Window(cache)[j].vehicleCount
          /\ roundToNearestQuarterHour(Window(cache)[i].timestamp)
                = roundToNearestQuarterHour(Window(cache)[j].timestamp)
          /\ roundToNearestQuarterHour(Window(cache)[i].timestamp) >= ServeCutoff(now)

\* C17: when the window a cycle aggregates holds a document whose intersection
\* has no entry in the camera data, the aggregation fails and nothing is
\* published.
C17_UnresolvableNameFatal ==
    [][\A c \in Slots :
          /\ Leaves(c, "fetched")
          /\ \E i \in 1..Len(cycles[c].rollingWeek) :
                cycles[c].rollingWeek[i].intersection \notin DOMAIN cameraData
          => /\ console' # "Processed"
             /\ Published(cache') = Published(cache)]_vars

\* C18: when a call that overlapped with a call that has merged takes its own
\* merge step, the Rolling Window it stores has every document, within the
\* retention bound, that either query returned.
C18_NoLostUpdate ==
    [][\A c \in Slots :
          Leaves(c, "resultReady") /\ cycles[c].overlapped # {}
          => \A r \in cycles[c].overlapped \cup Range(cycles[c].fetched) :
                r.timestamp >= PruneCutoff(now) => r.id \in Ids(Window(cache'))]_vars

\* C19: when the aggregation of a call fails, the Rolling Window keeps every
\* document of the window that the call stored, and the published value is the
\* one from before.
C19_WindowKeptOnAggregationFailure ==
    [][\A c \in Slots :
          Leaves(c, "fetched") /\ console' # "Processed"
          => /\ Range(cycles[c].rollingWeek) \subseteq Range(Window(cache'))
             /\ Window(cache') = Window(cache)
             /\ Published(cache') = Published(cache)]_vars

\* A call has ended in a failed length check: the window holds the document
\* it merged, inserted after the start, next to a Snapshot published before.
C19_Witness ==
    /\ console = "error: Length check failed"
    /\ InFlight = {}
    /\ Published(cache) # <<>>
    /\ \E i \in 1..Len(Window(cache)) : Window(cache)[i].timestamp > startedAt

\* C20: when a call publishes and no call is in flight after it, the published
\* Snapshot is the aggregation of the Rolling Window that is stored, also when
\* calls overlapped: the Snapshot of the window stored last is published last.
C20_PublishedFromStoredWindow ==
    [][\A c \in Slots :
          Leaves(c, "fetched") /\ console' = "Processed" /\ InFlight' = {}
          => /\ processData(Window(cache'), now).ok
             /\ Published(cache') = <<processData(Window(cache'), now).value>>]_vars

\* No call is in flight and the last call to end has published, after another
\* call had merged documents while it was in flight.
C20_Witness ==
    /\ InFlight = {}
    /\ console = "Processed"
    /\ overlapPublished
    /\ Served(cache) # <<>>

=============================================================================
